---- MODULE Spec2Model ----
(***************************************************************************)
(* Model of weatherart's upload reconciliation: main.py's test_upload flow *)
(* (snapshot, bounded upload, diff, latest-item pick, select, persist,     *)
(* delete) and the pure helpers of tv_utils.py it relies on.               *)
(***************************************************************************)
EXTENDS Integers, Sequences, FiniteSets, TLC

VARIABLES
    pc,            \* position of the caller thread in test_upload / a helper call
    file,          \* content of LAST_ID_FILE (NoneVal: the file is absent)
    last_id,       \* test_upload's local last_id
    before_list,   \* test_upload's local before_list
    before_ids,    \* test_upload's local before_ids
    after_list,    \* test_upload's local after_list
    new_items,     \* test_upload's local new_items
    content_id,    \* test_upload's local content_id
    upload_error,  \* test_upload's local upload_error
    thread,        \* upload_with_timeout's worker: "none", "running", "finished"
    result,        \* upload_with_timeout's result cell, written by the worker
    calls,         \* device operations issued so far, in order
    arg,           \* argument of a helper applied on its own
    ret,           \* what that helper returned
    entry,         \* the script that runs: "main", "push", "remove"; "none" for a helper
    args,          \* the parsed command line: args.replace_last, args.category
    rm_items,      \* remove_today's local items
    to_delete,     \* remove_today's local to_delete
    today_prefix   \* remove_today's local today_prefix, as the day it names

vars == <<pc, file, last_id, before_list, before_ids, after_list, new_items,
          content_id, upload_error, thread, result, calls, arg, ret,
          entry, args, rm_items, to_delete, today_prefix>>

\* what the upload scripts never touch once they run
other_vars == <<entry, args, rm_items, to_delete, today_prefix>>

flow_vars == <<file, last_id, before_list, before_ids, after_list, new_items,
               content_id, upload_error, thread, result, calls>>

----------------------------------------------------------------------------
(* Bounds and value domains *)

\* longest catalog listing the device returns in the upload flow
MaxLen == 2
\* longest collection handed to pick_latest_content_id on its own
MaxPickLen == 3

\* Python's None
NoneVal == "<None>"
\* Python's empty string
EmptyStr == ""
\* content ids the device hands out
Ids == {"x1", "x2"}
\* epoch seconds carried by timestamp fields
Epochs == {1, 2}

\* Python truthiness of an Optional[str]
Truthy(v) == v # NoneVal /\ v # EmptyStr

\* sequences over S of length at most n
SeqsUpTo(S, n) == UNION {[1..k -> S] : k \in 0..n}

----------------------------------------------------------------------------
(* Catalog items *)

\* a timestamp field of an item: missing, a number, a string, or another type
Absent == [k |-> "absent", sep |-> "", v |-> 0]
OtherType == [k |-> "other", sep |-> "", v |-> 0]
Num(n) == [k |-> "num", sep |-> "", v |-> n]
\* a date string "YYYY<sep>mm<sep>dd HH:MM:SS" denoting epoch n
Str(sep, n) == [k |-> "str", sep |-> sep, v |-> n]

FieldValues ==
    {Absent, OtherType} \cup {Num(n) : n \in Epochs}
        \cup {Str(sep, n) : sep \in {":", "-"}, n \in Epochs}
        \cup {Str("/", 0)}

\* the keys score() probes, in its order
ScoreKeys == <<"date", "create_time", "added_time", "timestamp", "content_time">>
\* the strptime formats score() tries, in its order, named by their date delimiter
ScoreFormats == <<":", "-">>

\* a record of the catalog with content_id cid (NoneVal: the key is missing)
Dict(cid, date) ==
    [isdict |-> TRUE, content_id |-> cid, date |-> date, create_time |-> Absent,
     added_time |-> Absent, timestamp |-> Absent, content_time |-> Absent]

\* a catalog entry that is not a dict
NotADict ==
    [isdict |-> FALSE, content_id |-> NoneVal, date |-> Absent, create_time |-> Absent,
     added_time |-> Absent, timestamp |-> Absent, content_time |-> Absent]

\* isinstance(item, dict)
IsDict(item) == item.isdict

\* item.get("content_id")
GetContentId(item) == item.content_id

\* items a listing of the upload flow can hold: a non-record, an undated record,
\* a dated record, and a dated record that has no content_id
FlowItems ==
    {NotADict, Dict("x1", Absent), Dict("x2", Num(1)), Dict(NoneVal, Num(1))}

\* items handed to pick_latest_content_id on its own
PickItems ==
    {NotADict}
        \cup {Dict(cid, d) : cid \in Ids \cup {"x3", NoneVal},
                             d \in {Absent, Num(1), Str(":", 2)}}

\* items handed to score() on its own: every combination of the five fields
ScoreItems ==
    [isdict : {TRUE}, content_id : {"x1"}, date : FieldValues,
     create_time : FieldValues, added_time : FieldValues, timestamp : FieldValues,
     content_time : FieldValues]

----------------------------------------------------------------------------
(* tv_utils.pick_latest_content_id and its score() *)

\* datetime.strptime(value, fmt).timestamp(): ok, or ValueError
Strptime(value, fmt) ==
    IF value.sep = fmt THEN [ok |-> TRUE, t |-> value.v] ELSE [ok |-> FALSE, t |-> 0]

\* the inner loop over formats: the first format that parses, from format j on
RECURSIVE TryFormats(_, _)
TryFormats(value, j) ==
    IF j > Len(ScoreFormats) THEN [ok |-> FALSE, t |-> 0]
    ELSE IF Strptime(value, ScoreFormats[j]).ok THEN Strptime(value, ScoreFormats[j])
    ELSE TryFormats(value, j + 1)

\* a score() that gives up at the first field that is present
RECURSIVE ScoreFromFirstPresentOnly(_, _)
ScoreFromFirstPresentOnly(item, i) ==
    IF i > Len(ScoreKeys) THEN 0
    ELSE LET value == item[ScoreKeys[i]] IN
         IF value.k = "num" THEN value.v
         ELSE IF value.k = "str"
              THEN (IF TryFormats(value, 1).ok THEN TryFormats(value, 1).t ELSE 0)
         ELSE IF value.k = "other" THEN 0
         ELSE ScoreFromFirstPresentOnly(item, i + 1)

\* the outer loop over keys, from key i on; 0 when the loop falls through
RECURSIVE ScoreFrom(_, _)
ScoreFrom(item, i) ==
    IF i > Len(ScoreKeys) THEN 0
    ELSE LET value == item[ScoreKeys[i]] IN
         IF value.k = "num" THEN value.v
         ELSE IF value.k = "str" /\ TryFormats(value, 1).ok THEN TryFormats(value, 1).t
         ELSE ScoreFrom(item, i + 1)

score(item) == ScoreFrom(item, 1)

\* [item for item in items if isinstance(item, dict)]
RECURSIVE OnlyDicts(_)
OnlyDicts(items) ==
    IF items = <<>> THEN <<>>
    ELSE (IF IsDict(Head(items)) THEN <<Head(items)>> ELSE <<>>) \o OnlyDicts(Tail(items))

\* an insertion that puts x before the elements of equal score
RECURSIVE InsertBeforeEqual(_, _)
InsertBeforeEqual(x, sorted) ==
    IF sorted = <<>> THEN <<x>>
    ELSE IF score(Head(sorted)) > score(x)
         THEN <<Head(sorted)>> \o InsertBeforeEqual(x, Tail(sorted))
         ELSE <<x>> \o sorted

\* insertion of x into a list sorted by descending score, after the elements of
\* equal score (what a stable sort does with an element that comes later)
RECURSIVE InsertStable(_, _)
InsertStable(x, sorted) ==
    IF sorted = <<>> THEN <<x>>
    ELSE IF score(Head(sorted)) >= score(x)
         THEN <<Head(sorted)>> \o InsertStable(x, Tail(sorted))
         ELSE <<x>> \o sorted

\* sorted(items, key=score, reverse=True): stable, descending
RECURSIVE SortedDesc(_)
SortedDesc(items) ==
    IF items = <<>> THEN <<>>
    ELSE InsertStable(items[Len(items)], SortedDesc(SubSeq(items, 1, Len(items) - 1)))

\* what a call that raises gives its caller
Raised == "<raised>"

\* a pick_latest_content_id without the filter and the empty guard
PickWithoutGuard(items) ==
    IF items = <<>> \/ \E i \in 1..Len(items) : ~IsDict(items[i]) THEN Raised
    ELSE GetContentId(Head(SortedDesc(items)))

\* a pick_latest_content_id that ranks only the records that have a content_id
RECURSIVE OnlyIdentified(_)
OnlyIdentified(items) ==
    IF items = <<>> THEN <<>>
    ELSE (IF IsDict(Head(items)) /\ Truthy(GetContentId(Head(items)))
          THEN <<Head(items)>> ELSE <<>>) \o OnlyIdentified(Tail(items))

PickAmongIdentified(items) ==
    LET dicts == OnlyIdentified(items) IN
    IF dicts = <<>> THEN NoneVal
    ELSE GetContentId(Head(SortedDesc(dicts)))

pick_latest_content_id(items) ==
    LET dicts == OnlyDicts(items) IN
    IF dicts = <<>> THEN NoneVal
    ELSE GetContentId(Head(SortedDesc(dicts)))

----------------------------------------------------------------------------
(* The helpers applied on their own *)

\* a command line with no option given
NoArgs == [replace_last |-> FALSE, category |-> EmptyStr]

InitPure ==
    /\ file = NoneVal /\ last_id = NoneVal
    /\ before_list = <<>> /\ before_ids = {} /\ after_list = <<>> /\ new_items = <<>>
    /\ content_id = NoneVal /\ upload_error = NoneVal
    /\ thread = "none" /\ result = [content_id |-> NoneVal, error |-> NoneVal]
    /\ calls = <<>>
    /\ pc = "call" /\ ret = NoneVal
    /\ entry = "none" /\ args = NoArgs
    /\ rm_items = <<>> /\ to_delete = <<>> /\ today_prefix = 0

InitScore == InitPure /\ arg \in ScoreItems

CallScore ==
    /\ pc = "call"
    /\ ret' = score(arg)
    /\ pc' = "return"
    /\ UNCHANGED <<flow_vars, arg, other_vars>>

SpecScore == InitScore /\ [][CallScore]_vars

InitPick == InitPure /\ arg \in SeqsUpTo(PickItems, MaxPickLen)

CallPick ==
    /\ pc = "call"
    /\ ret' = pick_latest_content_id(arg)
    /\ pc' = "return"
    /\ UNCHANGED <<flow_vars, arg, other_vars>>

SpecPick == InitPick /\ [][CallPick]_vars

----------------------------------------------------------------------------
(* main.test_upload *)

\* a device operation as issued: the operation, the content id it names, and
\* whether the device call raised
Call(op, id, raised) == [op |-> op, id |-> id, raised |-> raised]

\* what art.upload() can return: an id, None, or an empty id
UploadReturns == Ids \cup {NoneVal, EmptyStr}

\* what LAST_ID_FILE can hold when a run starts
FileContents == Ids \cup {NoneVal}

\* what available() can return; None or an empty list both become []
Listings == SeqsUpTo(FlowItems, MaxLen)

\* tv_utils.load_last_id: the stripped content, or None when empty or unreadable
load_last_id(f) == IF Truthy(f) THEN f ELSE NoneVal

\* before_ids = {item.get("content_id") for item in before_list if isinstance(item, dict)}
BeforeIds(list) == {GetContentId(list[i]) : i \in {j \in 1..Len(list) : IsDict(list[j])}}

\* a diff that keeps the items whose id is in before_ids
RECURSIVE NewItemsInverted(_, _)
NewItemsInverted(list, ids) ==
    IF list = <<>> THEN <<>>
    ELSE (IF IsDict(Head(list)) /\ GetContentId(Head(list)) \in ids
          THEN <<Head(list)>> ELSE <<>>) \o NewItemsInverted(Tail(list), ids)

\* new_items = [item for item in after_list
\*              if isinstance(item, dict) and item.get("content_id") not in before_ids]
RECURSIVE NewItems(_, _)
NewItems(list, ids) ==
    IF list = <<>> THEN <<>>
    ELSE (IF IsDict(Head(list)) /\ GetContentId(Head(list)) \notin ids
          THEN <<Head(list)>> ELSE <<>>) \o NewItems(Tail(list), ids)

\* pick_latest_content_id(new_items) or pick_latest_content_id(after_list)
Reconcile(news, after) ==
    IF Truthy(pick_latest_content_id(news)) THEN pick_latest_content_id(news)
    ELSE pick_latest_content_id(after)

\* a guard that reconciles whatever the upload returned
AlwaysReconcile(cid) == TRUE

\* if not content_id:
NeedsReconcile(cid) == ~Truthy(cid)

\* where a run has ended: test_upload returned ("done", "failed", "no_image"),
\* SystemExit was raised ("exit_error"), or an exception was not caught ("crashed")
Terminal == {"done", "failed", "no_image", "exit_error", "crashed"}

Init ==
    /\ pc = "start"
    /\ file \in FileContents
    /\ last_id = NoneVal
    /\ before_list = <<>> /\ before_ids = {} /\ after_list = <<>> /\ new_items = <<>>
    /\ content_id = NoneVal /\ upload_error = NoneVal
    /\ thread = "none" /\ result = [content_id |-> NoneVal, error |-> NoneVal]
    /\ calls = <<>>
    /\ arg = <<>> /\ ret = NoneVal
    /\ entry = "main" /\ args = NoArgs
    /\ rm_items = <<>> /\ to_delete = <<>> /\ today_prefix = 0

\* select_tv_ip / connect_tv raise: the outer except logs and the run ends
ConnectFails ==
    /\ pc = "start"
    /\ pc' = "failed"
    /\ UNCHANGED <<flow_vars, arg, ret, other_vars>>

\* not os.path.exists(upload_path): log and return
ImageMissing ==
    /\ pc = "start"
    /\ pc' = "no_image"
    /\ UNCHANGED <<flow_vars, arg, ret, other_vars>>

\* art_upload = tv.art(); last_id = load_last_id()
LoadLastId ==
    /\ pc = "start"
    /\ last_id' = load_last_id(file)
    /\ pc' = "list_before"
    /\ UNCHANGED <<file, before_list, before_ids, after_list, new_items, content_id,
                   upload_error, thread, result, calls, arg, ret, other_vars>>

\* before_list = art_upload.available(category=MY_PICTURES_CATEGORY) or []
ListBefore ==
    /\ pc = "list_before"
    /\ \/ /\ calls' = Append(calls, Call("available", NoneVal, TRUE))
          /\ pc' = "failed"
          /\ UNCHANGED <<before_list, before_ids>>
       \/ \E list \in Listings :
            /\ calls' = Append(calls, Call("available", NoneVal, FALSE))
            /\ before_list' = list
            /\ before_ids' = BeforeIds(list)
            /\ pc' = "upload"
    /\ UNCHANGED <<file, last_id, after_list, new_items, content_id, upload_error,
                   thread, result, arg, ret, other_vars>>

\* upload_with_timeout: result = {...}; thread.start(); the caller goes to join
UploadStart ==
    /\ pc = "upload"
    /\ result' = [content_id |-> NoneVal, error |-> NoneVal]
    /\ thread' = "running"
    /\ calls' = Append(calls, Call("upload", NoneVal, FALSE))
    /\ pc' = "join"
    /\ UNCHANGED <<file, last_id, before_list, before_ids, after_list, new_items,
                   content_id, upload_error, arg, ret, other_vars>>

\* a runner() that hands a late content_id to the caller's variable
RunnerWritesCaller ==
    /\ thread = "running"
    /\ pc \notin Terminal
    /\ \/ \E r \in UploadReturns : result' = [result EXCEPT !.content_id = r]
       \/ result' = [result EXCEPT !.error = "UploadError"]
    /\ thread' = "finished"
    /\ content_id' = IF pc \in {"upload", "join"} THEN content_id ELSE result'.content_id
    /\ UNCHANGED <<pc, file, last_id, before_list, before_ids, after_list, new_items,
                   upload_error, calls, arg, ret, other_vars>>

\* runner(): art.upload returns or raises; a daemon thread, it ends with the process
Runner ==
    /\ thread = "running"
    /\ pc \notin Terminal
    /\ \/ \E r \in UploadReturns : result' = [result EXCEPT !.content_id = r]
       \/ result' = [result EXCEPT !.error = "UploadError"]
    /\ thread' = "finished"
    /\ UNCHANGED <<pc, file, last_id, before_list, before_ids, after_list, new_items,
                   content_id, upload_error, calls, arg, ret, other_vars>>

\* thread.join(upload_timeout_s) returns with the worker done
JoinFinished ==
    /\ pc = "join"
    /\ thread = "finished"
    /\ content_id' = result.content_id
    /\ upload_error' = result.error
    /\ pc' = "after_upload"
    /\ UNCHANGED <<file, last_id, before_list, before_ids, after_list, new_items,
                   thread, result, calls, arg, ret, other_vars>>

\* a timeout reported with no error at all
JoinTimeoutNoError ==
    /\ pc = "join"
    /\ thread = "running"
    /\ content_id' = NoneVal
    /\ upload_error' = NoneVal
    /\ pc' = "after_upload"
    /\ UNCHANGED <<file, last_id, before_list, before_ids, after_list, new_items,
                   thread, result, calls, arg, ret, other_vars>>

\* thread.join(upload_timeout_s) returns with the worker still alive
JoinTimeout ==
    /\ pc = "join"
    /\ thread = "running"
    /\ content_id' = NoneVal
    /\ upload_error' = "TimeoutError"
    /\ pc' = "after_upload"
    /\ UNCHANGED <<file, last_id, before_list, before_ids, after_list, new_items,
                   thread, result, calls, arg, ret, other_vars>>

\* if upload_error: content_id = None; art_upload.close(), whose exception is passed
CloseOnError ==
    /\ entry = "main"
    /\ pc = "after_upload"
    /\ upload_error # NoneVal
    /\ content_id' = NoneVal
    /\ \E raised \in BOOLEAN : calls' = Append(calls, Call("close", NoneVal, raised))
    /\ pc' = "check_id"
    /\ UNCHANGED <<file, last_id, before_list, before_ids, after_list, new_items,
                   upload_error, thread, result, arg, ret, other_vars>>

NoUploadError ==
    /\ entry = "main"
    /\ pc = "after_upload"
    /\ upload_error = NoneVal
    /\ pc' = "check_id"
    /\ UNCHANGED <<flow_vars, arg, ret, other_vars>>

\* if not content_id: list again, diff, pick
ReconcileFromCatalog ==
    /\ pc = "check_id"
    /\ NeedsReconcile(content_id)
    /\ \/ /\ calls' = Append(calls, Call("available", NoneVal, TRUE))
          /\ pc' = "failed"
          /\ UNCHANGED <<after_list, new_items, content_id>>
       \/ \E list \in Listings :
            /\ calls' = Append(calls, Call("available", NoneVal, FALSE))
            /\ after_list' = list
            /\ new_items' = NewItems(list, before_ids)
            /\ content_id' = Reconcile(NewItems(list, before_ids), list)
            /\ pc' = "decide"
    /\ UNCHANGED <<file, last_id, before_list, before_ids, upload_error, thread,
                   result, arg, ret, other_vars>>

\* the upload's own content_id stands
KeepUploadId ==
    /\ pc = "check_id"
    /\ ~NeedsReconcile(content_id)
    /\ pc' = "decide"
    /\ UNCHANGED <<flow_vars, arg, ret, other_vars>>

\* if content_id: art_query.select_image(content_id, category=MY_PICTURES_CATEGORY)
SelectImage ==
    /\ pc = "decide"
    /\ Truthy(content_id)
    /\ \E raised \in BOOLEAN :
         /\ calls' = Append(calls, Call("select", content_id, raised))
         /\ pc' = IF raised THEN "failed" ELSE "save"
    /\ UNCHANGED <<file, last_id, before_list, before_ids, after_list, new_items,
                   content_id, upload_error, thread, result, arg, ret, other_vars>>

\* else: warn that the new image id was not found
Unresolved ==
    /\ pc = "decide"
    /\ ~Truthy(content_id)
    /\ pc' = "done"
    /\ UNCHANGED <<flow_vars, arg, ret, other_vars>>

\* tv_utils.save_last_id: the write, or an OSError that is passed (the file is
\* left as it was, or left empty when open() had truncated it)
save_last_id ==
    /\ pc = "save"
    /\ file' \in {content_id, file, EmptyStr}
    /\ pc' = "cleanup"
    /\ UNCHANGED <<last_id, before_list, before_ids, after_list, new_items,
                   content_id, upload_error, thread, result, calls, arg, ret, other_vars>>

\* a delete of the previous id that does not compare it with the new one
DeleteWithoutComparison ==
    /\ pc = "cleanup"
    /\ Truthy(last_id)
    /\ \E raised \in BOOLEAN : calls' = Append(calls, Call("delete", last_id, raised))
    /\ pc' = "done"
    /\ UNCHANGED <<file, last_id, before_list, before_ids, after_list, new_items,
                   content_id, upload_error, thread, result, arg, ret, other_vars>>

\* if last_id and last_id != content_id: art_query.delete(last_id), failure logged
DeletePrevious ==
    /\ pc = "cleanup"
    /\ Truthy(last_id) /\ last_id # content_id
    /\ \E raised \in BOOLEAN : calls' = Append(calls, Call("delete", last_id, raised))
    /\ pc' = "done"
    /\ UNCHANGED <<file, last_id, before_list, before_ids, after_list, new_items,
                   content_id, upload_error, thread, result, arg, ret, other_vars>>

KeepPrevious ==
    /\ pc = "cleanup"
    /\ ~(Truthy(last_id) /\ last_id # content_id)
    /\ pc' = "done"
    /\ UNCHANGED <<flow_vars, arg, ret, other_vars>>

Next ==
    \/ ConnectFails
    \/ ImageMissing
    \/ LoadLastId
    \/ ListBefore
    \/ UploadStart
    \/ Runner
    \/ JoinFinished
    \/ JoinTimeout
    \/ CloseOnError
    \/ NoUploadError
    \/ ReconcileFromCatalog
    \/ KeepUploadId
    \/ SelectImage
    \/ Unresolved
    \/ save_last_id
    \/ DeletePrevious
    \/ KeepPrevious

Spec == Init /\ [][Next]_vars

----------------------------------------------------------------------------
(* What the properties below speak of *)

\* positions of the device operations named op in the log
CallsOf(op) == {i \in 1..Len(calls) : calls[i].op = op}

\* the content ids a listing really holds: those of its records that have one
IdsPresent(list) ==
    {list[i].content_id : i \in {j \in 1..Len(list) :
                                    list[j].isdict /\ list[j].content_id # NoneVal}}

\* a valid item of a listing: a record that has a content_id
ValidItem(item) == item.isdict /\ item.content_id # NoneVal

\* the second listing was fetched: content_id comes from reconciliation
Reconciled ==
    /\ pc \in {"decide", "save", "cleanup", "done", "failed"}
    /\ Cardinality({i \in CallsOf("available") : ~calls[i].raised}) = 2

\* the positions of the records of a collection
RecordsOf(items) == {i \in 1..Len(items) : items[i].isdict}

\* record i is the earliest of the records of items that have the highest score
TopRanked(items, i) ==
    /\ i \in RecordsOf(items)
    /\ \A j \in RecordsOf(items) : score(items[j]) <= score(items[i])
    /\ \A j \in RecordsOf(items) : j < i => score(items[j]) < score(items[i])

\* latest-item selection has nothing to return for the collection: it holds no
\* record, or its top-ranked record has no content_id
NoWinner(items) ==
    \/ RecordsOf(items) = {}
    \/ \E i \in RecordsOf(items) : TopRanked(items, i) /\ items[i].content_id = NoneVal

\* upload_with_timeout returned a non-empty content_id and no error
UploadConfirmed ==
    /\ pc \notin {"start", "list_before", "upload", "join", "call", "return"}
    /\ upload_error = NoneVal
    /\ Truthy(result.content_id)

\* the upload timed out and the second listing equals the first
TimedOutIdentical ==
    /\ Reconciled
    /\ upload_error = "TimeoutError"
    /\ after_list = before_list

\* nothing was selected, nothing deleted, the persisted id is as the run found it
NothingDone ==
    /\ ~Truthy(content_id)
    /\ CallsOf("select") = {} /\ CallsOf("delete") = {}
    /\ file = last_id
    /\ pc \in {"decide", "done"}

----------------------------------------------------------------------------
(* C1 *)

----------------------------------------------------------------------------
(* C2 *)

----------------------------------------------------------------------------
(* C3 *)

\* C3: when the upload returns a non-empty content_id and no error, the catalog
\* is listed exactly once in the run (before the upload), and the id selected is
\* the id the upload returned.
ClaimC3_ConfirmedSkipsDiff ==
    UploadConfirmed =>
        /\ Cardinality(CallsOf("available")) = 1
        /\ \A i \in CallsOf("available") : \A j \in CallsOf("upload") : i < j
        /\ content_id = result.content_id
        /\ \A i \in CallsOf("select") : calls[i].id = result.content_id
        /\ pc \in {"save", "cleanup", "done"} => CallsOf("select") # {}
        /\ pc = "failed" => \E i \in CallsOf("select") : calls[i].raised

WitnessC3 ==
    /\ UploadConfirmed
    /\ pc = "done"
    /\ result.content_id = "x2"
    /\ before_list = <<Dict("x1", Absent)>>
    /\ \E i \in CallsOf("select") : calls[i].id = "x2" /\ ~calls[i].raised

----------------------------------------------------------------------------
(* C4 *)

\* C4 as stated: when the upload timed out or returned no id and the new-items
\* subset is non-empty, the identified id is the latest-item winner of the subset
\* and the full after-snapshot is not consulted.
ClaimC4_AsStated ==
    (Reconciled /\ new_items # <<>>) =>
        \E i \in RecordsOf(new_items) :
            TopRanked(new_items, i) /\ content_id = new_items[i].content_id

----------------------------------------------------------------------------
(* C5 *)

\* C5 as stated: an item that lacks a content_id, or is not a record, is never
\* among the new items and never contributes an entry to the before ids.
ClaimC5_AsStated ==
    /\ \A i \in 1..Len(new_items) : ValidItem(new_items[i])
    /\ before_ids \subseteq IdsPresent(before_list)

----------------------------------------------------------------------------
(* C6 *)

\* C6 as stated: when the before and after snapshots share no content_id, the new
\* items are exactly the valid items of the after-snapshot, in their order.
ClaimC6_AsStated ==
    (Reconciled /\ IdsPresent(before_list) \cap IdsPresent(after_list) = {}) =>
        new_items = SelectSeq(after_list, ValidItem)

----------------------------------------------------------------------------
(* C7 *)

\* C7 as stated: when every content_id of the after-snapshot is a content_id of
\* the before-snapshot, there are no new items.
ClaimC7_AsStated ==
    (Reconciled /\ IdsPresent(after_list) \subseteq IdsPresent(before_list)) =>
        new_items = <<>>

----------------------------------------------------------------------------
(* C8 *)

\* C8: pick_latest_content_id returns the content_id of the earliest, in input
\* order, of the records that have the highest score.
ClaimC8_EarliestOfTopScore ==
    (pc = "return" /\ RecordsOf(arg) # {}) =>
        \E i \in RecordsOf(arg) : TopRanked(arg, i) /\ ret = arg[i].content_id

WitnessC8 ==
    /\ pc = "return"
    /\ arg = <<Dict("x1", Num(1)), Dict("x2", Str(":", 2)), Dict("x3", Str(":", 2))>>
    /\ ret = "x2"

----------------------------------------------------------------------------
(* C9 *)

\* field key of the item can give a score: a number, or a date string in one of
\* the two formats
Usable(item, key) ==
    \/ item[key].k = "num"
    \/ item[key].k = "str" /\ item[key].sep \in {":", "-"}

\* C9 as stated: the score comes from the first field that is present, and from
\* that field only: its number, its parsed date, or zero when it does not parse
\* or no field is present. (A field is taken as present when it holds a number
\* or a string.)
ClaimC9_AsStated ==
    pc = "return" =>
        LET present == {i \in 1..Len(ScoreKeys) : arg[ScoreKeys[i]].k \in {"num", "str"}} IN
        IF present = {} THEN ret = 0
        ELSE LET first == CHOOSE i \in present : \A j \in present : i <= j IN
             ret = IF Usable(arg, ScoreKeys[first]) THEN arg[ScoreKeys[first]].v ELSE 0

\* C9, amended: the score comes from the first field, in the priority order date,
\* create_time, added_time, timestamp, content_time, whose value is a number or a
\* string in the colon-delimited or the hyphen-delimited format: the number, or
\* the parsed date. A field whose value is neither is passed over and the fields
\* after it are tried; the score is zero when no field gives one.
ClaimC9_FirstUsableField ==
    pc = "return" =>
        LET usable == {i \in 1..Len(ScoreKeys) : Usable(arg, ScoreKeys[i])} IN
        IF usable = {} THEN ret = 0
        ELSE LET first == CHOOSE i \in usable : \A j \in usable : i <= j IN
             ret = arg[ScoreKeys[first]].v

WitnessC9 ==
    /\ pc = "return"
    /\ arg.date = Str("/", 0)
    /\ arg.create_time = Num(2)
    /\ arg.added_time = Str(":", 1)
    /\ ret = 2

----------------------------------------------------------------------------
(* C10 *)

\* C10: pick_latest_content_id on an empty collection, or one that holds no
\* record, returns None and does not raise.
ClaimC10_EmptyGivesNone ==
    (pc = "return" /\ RecordsOf(arg) = {}) => ret = NoneVal

WitnessC10 ==
    /\ pc = "return"
    /\ arg = <<>>
    /\ ret = NoneVal

----------------------------------------------------------------------------
(* C11 *)

\* what the caller of upload_with_timeout holds
caller_vars == <<pc, file, last_id, before_list, before_ids, after_list, new_items,
                 content_id, upload_error, calls>>

\* the step in which upload_with_timeout returns to its caller
JoinReturns == pc = "join" /\ pc' # "join"

\* C11: upload_with_timeout always returns: at the join the caller can always
\* go on; with the worker done its content_id and error are what is returned;
\* with the worker still alive the caller gets no content_id and a timeout error,
\* and the worker is left running. What the worker writes after the return
\* changes nothing the caller holds, and a timed-out run takes its content_id
\* from the catalog only.
ClaimC11_BoundedUploadReturns ==
    [][/\ pc = "join" => ENABLED (JoinFinished \/ JoinTimeout)
       /\ (JoinReturns /\ thread = "finished") =>
              /\ content_id' = result.content_id
              /\ upload_error' = result.error
       /\ (JoinReturns /\ thread = "running") =>
              /\ content_id' = NoneVal
              /\ upload_error' = "TimeoutError"
              /\ thread' = "running" /\ result' = result
       /\ (pc \notin {"upload", "join"} /\ <<thread, result>>' # <<thread, result>>) =>
              UNCHANGED caller_vars
       /\ (upload_error' = "TimeoutError" /\ Truthy(content_id')) =>
              content_id' \in IdsPresent(after_list')
      ]_vars

WitnessC11 ==
    /\ pc = "done"
    /\ upload_error = "TimeoutError"
    /\ thread = "finished" /\ result.content_id = "x2"
    /\ content_id = "x1"
    /\ \E i \in CallsOf("select") : calls[i].id = "x1" /\ ~calls[i].raised

----------------------------------------------------------------------------
(* C12 *)

\* the outcome the caller holds has neither a content_id nor an error
BothNone == content_id = NoneVal /\ upload_error = NoneVal

\* C12 as stated: in the outcome upload_with_timeout returns, exactly one of
\* content_id and error is set, or both are none, and both are none exactly when
\* the upload timed out.
ClaimC12_AsStated ==
    [][JoinReturns =>
           /\ BothNone' \/ (Truthy(content_id') /\ upload_error' = NoneVal)
                        \/ (content_id' = NoneVal /\ upload_error' # NoneVal)
           /\ BothNone' <=> thread = "running"
      ]_vars

\* C12, amended: in the outcome upload_with_timeout returns, content_id and error
\* are never both set. A timeout is returned as no content_id and a TimeoutError;
\* both are none exactly when the worker finished within the timeout and the
\* upload returned None without raising, never when the upload timed out.
ClaimC12_TimeoutCarriesError ==
    [][JoinReturns =>
           /\ ~(content_id' # NoneVal /\ upload_error' # NoneVal)
           /\ thread = "running" =>
                  content_id' = NoneVal /\ upload_error' = "TimeoutError"
           /\ BothNone' <=>
                  /\ thread = "finished"
                  /\ result.content_id = NoneVal /\ result.error = NoneVal
      ]_vars

WitnessC12 ==
    /\ pc = "after_upload"
    /\ BothNone
    /\ thread = "finished"
    /\ result = [content_id |-> NoneVal, error |-> NoneVal]

----------------------------------------------------------------------------
(* push_image.main: upload, select, persist, optionally delete the previous id *)

\* the options of push_image that the flow reads
PushArgs == [replace_last : BOOLEAN, category : {EmptyStr}]

InitPush ==
    /\ pc = "p_start"
    /\ file \in FileContents
    /\ last_id = NoneVal
    /\ before_list = <<>> /\ before_ids = {} /\ after_list = <<>> /\ new_items = <<>>
    /\ content_id = NoneVal /\ upload_error = NoneVal
    /\ thread = "none" /\ result = [content_id |-> NoneVal, error |-> NoneVal]
    /\ calls = <<>>
    /\ arg = <<>> /\ ret = NoneVal
    /\ entry = "push" /\ args \in PushArgs
    /\ rm_items = <<>> /\ to_delete = <<>> /\ today_prefix = 0

\* if not os.path.exists(image_path): raise SystemExit
PushImageMissing ==
    /\ pc = "p_start"
    /\ pc' = "exit_error"
    /\ UNCHANGED <<flow_vars, arg, ret, other_vars>>

\* select_tv_ip / connect_tv raise and nothing catches the exception
PushConnectFails ==
    /\ pc = "p_start"
    /\ pc' = "crashed"
    /\ UNCHANGED <<flow_vars, arg, ret, other_vars>>

\* art = tv.art(); last_id = load_last_id()
PushLoadLastId ==
    /\ pc = "p_start"
    /\ last_id' = load_last_id(file)
    /\ pc' = "upload"
    /\ UNCHANGED <<file, before_list, before_ids, after_list, new_items, content_id,
                   upload_error, thread, result, calls, arg, ret, other_vars>>

\* if upload_error: raise SystemExit; if not content_id: raise SystemExit
PushUploadFailed ==
    /\ entry = "push"
    /\ pc = "after_upload"
    /\ upload_error # NoneVal \/ ~Truthy(content_id)
    /\ pc' = "exit_error"
    /\ UNCHANGED <<flow_vars, arg, ret, other_vars>>

\* art.select_image(content_id, category=MY_PICTURES_CATEGORY), outside any try
PushSelect ==
    /\ entry = "push"
    /\ pc = "after_upload"
    /\ upload_error = NoneVal /\ Truthy(content_id)
    /\ \E raised \in BOOLEAN :
         /\ calls' = Append(calls, Call("select", content_id, raised))
         /\ pc' = IF raised THEN "crashed" ELSE "p_save"
    /\ UNCHANGED <<file, last_id, before_list, before_ids, after_list, new_items,
                   content_id, upload_error, thread, result, arg, ret, other_vars>>

\* save_last_id(content_id): the write, or an OSError that is passed
PushSave ==
    /\ pc = "p_save"
    /\ file' \in {content_id, file, EmptyStr}
    /\ pc' = "p_cleanup"
    /\ UNCHANGED <<last_id, before_list, before_ids, after_list, new_items,
                   content_id, upload_error, thread, result, calls, arg, ret, other_vars>>

\* a delete of the previous id whether or not --replace-last was given
PushDeleteIgnoringFlag ==
    /\ pc = "p_cleanup"
    /\ Truthy(last_id) /\ last_id # content_id
    /\ \E raised \in BOOLEAN : calls' = Append(calls, Call("delete", last_id, raised))
    /\ pc' = "done"
    /\ UNCHANGED <<file, last_id, before_list, before_ids, after_list, new_items,
                   content_id, upload_error, thread, result, arg, ret, other_vars>>

\* if args.replace_last and last_id and last_id != content_id: art.delete(last_id),
\* failure logged
PushDeletePrevious ==
    /\ pc = "p_cleanup"
    /\ args.replace_last /\ Truthy(last_id) /\ last_id # content_id
    /\ \E raised \in BOOLEAN : calls' = Append(calls, Call("delete", last_id, raised))
    /\ pc' = "done"
    /\ UNCHANGED <<file, last_id, before_list, before_ids, after_list, new_items,
                   content_id, upload_error, thread, result, arg, ret, other_vars>>

PushKeepPrevious ==
    /\ pc = "p_cleanup"
    /\ ~(args.replace_last /\ Truthy(last_id) /\ last_id # content_id)
    /\ pc' = "done"
    /\ UNCHANGED <<flow_vars, arg, ret, other_vars>>

NextPush ==
    \/ PushImageMissing
    \/ PushConnectFails
    \/ PushLoadLastId
    \/ PushUploadFailed
    \/ PushSelect
    \/ PushSave
    \/ PushDeletePrevious
    \/ PushKeepPrevious

\* a run of either entry point: main.py's test_upload or push_image.py's main
InitEntryPoints == Init \/ InitPush

NextEntryPoints == Next \/ NextPush

SpecEntryPoints == InitEntryPoints /\ [][NextEntryPoints]_vars

----------------------------------------------------------------------------
(* C13 *)

\* the last device operation of the run so far
LastCall == calls[Len(calls)]

\* select_image was called for the run's content_id and returned
SelectedOk ==
    \E i \in CallsOf("select") : calls[i].id = content_id /\ ~calls[i].raised

\* the run's calls end with the returned select of content_id and nothing after it
EndsWithSelect ==
    /\ calls # <<>>
    /\ LastCall = Call("select", content_id, FALSE)
    /\ CallsOf("delete") = {}

\* the run's calls end with the returned select of content_id, then one delete of
\* the id read at start, raised or not
EndsWithSelectThenDelete ==
    /\ Len(calls) >= 2
    /\ calls[Len(calls) - 1] = Call("select", content_id, FALSE)
    /\ LastCall.op = "delete" /\ LastCall.id = last_id
    /\ Cardinality(CallsOf("delete")) = 1

\* a previously persisted id was read at start and differs from the new id
PreviousDiffers == Truthy(last_id) /\ last_id # content_id

\* C13 as stated: in either entry point, a run that selected its content_id and
\* ended normally has attempted the delete of the previous id exactly when a
\* previously persisted id was read at start and differs from the new id.
ClaimC13_AsStated ==
    (pc = "done" /\ SelectedOk) =>
        (CallsOf("delete") # {} <=> PreviousDiffers)

\* C13, amended: once a content_id is identified the run issues the select for
\* that id; when the select returns, the run attempts to overwrite the persisted
\* last id with it (a failed write is swallowed) and then attempts one delete of
\* the previous id when one was read at start and differs from the new id, in
\* push_image only if --replace-last was given as well. A failing delete is
\* caught and the run still ends normally.
ClaimC13_DeleteNeedsReplaceLast ==
    /\ (pc \in Terminal /\ Truthy(content_id)) =>
           \E i \in CallsOf("select") : calls[i].id = content_id
    /\ pc \in {"save", "p_save", "cleanup", "p_cleanup"} => EndsWithSelect
    /\ pc \in {"cleanup", "p_cleanup"} =>
           file \in {content_id, EmptyStr} \cup
                    {f \in FileContents : load_last_id(f) = last_id}
    /\ (pc = "done" /\ SelectedOk) =>
           IF PreviousDiffers /\ (entry = "main" \/ args.replace_last)
           THEN EndsWithSelectThenDelete
           ELSE EndsWithSelect
    /\ CallsOf("delete") # {} => pc = "done"

WitnessC13 ==
    /\ entry = "push" /\ args.replace_last
    /\ pc = "done"
    /\ EndsWithSelectThenDelete /\ LastCall.raised
    /\ file = content_id

----------------------------------------------------------------------------
(* tv_utils.load_last_id / save_last_id on the text of the persistence file *)

\* the longest content_id text that is saved
MaxTextLen == 3

\* "BAD" is a character the file's text encoding cannot represent: writing it
\* raises UnicodeEncodeError, and bytes that do not decode raise
\* UnicodeDecodeError on reading; "CR" and "LF" are the line ends
BadChar == "BAD"

Chars == {"a", " ", "CR", BadChar}

Whitespace == {" ", "CR", "LF"}

Texts == SeqsUpTo(Chars, MaxTextLen)

Encodable(t) == \A i \in 1..Len(t) : t[i] # BadChar

\* Optional[str]: None, or a string
Nothing == [none |-> TRUE, text |-> <<>>]

Some(t) == [none |-> FALSE, text |-> t]

\* how a call ended: it returned a value, or it raised
Returned(v) == [raised |-> FALSE, value |-> v]

Raises == [raised |-> TRUE, value |-> Nothing]

\* the persistence file: absent, present but not openable for reading, or readable
AbsentFile == [state |-> "absent", text |-> <<>>]

FileOf(st, t) == [state |-> st, text |-> t]

\* the files a run can find: none, or one left by an earlier run or by hand
InitFiles ==
    {AbsentFile} \cup
    {FileOf(st, t) : st \in {"ok", "unreadable"}, t \in SeqsUpTo(Chars, 1)}

\* open(path, "r").read(): universal newlines turn "\r\n" and "\r" into "\n"
RECURSIVE ReadText(_)
ReadText(t) ==
    IF t = <<>> THEN <<>>
    ELSE IF Head(t) = "CR"
         THEN <<"LF">> \o ReadText(IF Len(t) > 1 /\ t[2] = "LF"
                                   THEN Tail(Tail(t)) ELSE Tail(t))
         ELSE <<Head(t)>> \o ReadText(Tail(t))

RECURSIVE LStrip(_)
LStrip(t) == IF t # <<>> /\ Head(t) \in Whitespace THEN LStrip(Tail(t)) ELSE t

RECURSIVE RStrip(_)
RStrip(t) ==
    IF t # <<>> /\ t[Len(t)] \in Whitespace THEN RStrip(SubSeq(t, 1, Len(t) - 1))
    ELSE t

\* str.strip()
Strip(t) == RStrip(LStrip(t))

\* a load_last_id that lets the OSError of open() out
LoadTextUncaught(f) ==
    IF f.state # "ok" THEN Raises
    ELSE IF ~Encodable(f.text) THEN Raises
    ELSE IF Strip(ReadText(f.text)) = <<>> THEN Returned(Nothing)
    ELSE Returned(Some(Strip(ReadText(f.text))))

\* load_last_id on the file's text: value = f.read().strip(); return value or None;
\* except OSError: return None
LoadText(f) ==
    IF f.state # "ok" THEN Returned(Nothing)
    ELSE IF ~Encodable(f.text) THEN Raises
    ELSE IF Strip(ReadText(f.text)) = <<>> THEN Returned(Nothing)
    ELSE Returned(Some(Strip(ReadText(f.text))))

\* the file after a write of t went through: its permissions stay as they were
Written(f, t) == FileOf(IF f.state = "unreadable" THEN "unreadable" ELSE "ok", t)

\* save_last_id(id): open(path, "w") raises OSError and the file is as before; or
\* it truncates the file and then f.write raises OSError, writes the text, or
\* raises UnicodeEncodeError, which is not an OSError
SaveOutcomes(f, id) ==
    {[file |-> f, raised |-> FALSE, wrote |-> FALSE, oserror |-> TRUE]} \cup
    (IF Encodable(id)
     THEN {[file |-> Written(f, id), raised |-> FALSE, wrote |-> TRUE, oserror |-> FALSE],
           [file |-> Written(f, <<>>), raised |-> FALSE, wrote |-> FALSE, oserror |-> TRUE]}
     ELSE {[file |-> Written(f, <<>>), raised |-> TRUE, wrote |-> FALSE, oserror |-> FALSE]})

\* an entry of the log of what was done to the file
PCall(op, wrote, oserror) == [op |-> op, wrote |-> wrote, oserror |-> oserror]

\* what the persistence calls leave alone
io_rest == <<last_id, before_list, before_ids, after_list, new_items, upload_error,
             thread, result, arg, other_vars>>

InitPersist ==
    /\ pc = "io_start"
    /\ file \in InitFiles
    /\ last_id = NoneVal
    /\ before_list = <<>> /\ before_ids = {} /\ after_list = <<>> /\ new_items = <<>>
    /\ content_id = <<>> /\ upload_error = NoneVal
    /\ thread = "none" /\ result = [content_id |-> NoneVal, error |-> NoneVal]
    /\ calls = <<>>
    /\ arg = <<>> /\ ret = Returned(Nothing)
    /\ entry = "none" /\ args = NoArgs
    /\ rm_items = <<>> /\ to_delete = <<>> /\ today_prefix = 0

\* save_last_id(content_id)
CallSaveLastId ==
    /\ pc = "io_start"
    /\ \E id \in Texts : \E o \in SaveOutcomes(file, id) :
         /\ content_id' = id
         /\ file' = o.file
         /\ ret' = [raised |-> o.raised, value |-> Nothing]
         /\ calls' = Append(calls, PCall("save_last_id", o.wrote, o.oserror))
    /\ pc' = "io_saved"
    /\ UNCHANGED io_rest

\* between the runs the file is deleted, or made unreadable
FileLost ==
    /\ pc = "io_saved"
    /\ file' \in {AbsentFile, FileOf("unreadable", file.text)}
    /\ calls' = Append(calls, PCall("lost", FALSE, FALSE))
    /\ pc' = "io_lost"
    /\ UNCHANGED <<content_id, ret, io_rest>>

\* load_last_id()
CallLoadLastId ==
    /\ pc \in {"io_start", "io_saved", "io_lost"}
    /\ ret' = LoadText(file)
    /\ calls' = Append(calls, PCall("load_last_id", FALSE, FALSE))
    /\ pc' = "io_loaded"
    /\ UNCHANGED <<file, content_id, io_rest>>

NextPersist == CallSaveLastId \/ FileLost \/ CallLoadLastId

SpecPersist == InitPersist /\ [][NextPersist]_vars

----------------------------------------------------------------------------
(* C14 *)

\* load_last_id() has just returned or raised
Loaded == pc = "io_loaded"

\* save_last_id(content_id) wrote the file and load_last_id() was the next call
SavedThenLoaded ==
    /\ Loaded
    /\ Len(calls) = 2
    /\ calls[1].op = "save_last_id" /\ calls[1].wrote
    /\ file.state = "ok"

\* an id that is not empty, has no whitespace at either end and no carriage
\* return inside
Clean(t) ==
    /\ t # <<>>
    /\ Head(t) \notin Whitespace /\ t[Len(t)] \notin Whitespace
    /\ \A i \in 1..Len(t) : t[i] # "CR"

\* C14 as stated: for every non-empty content_id string, save_last_id(id) that
\* wrote the file followed by load_last_id() returns that same id; with the file
\* absent or unreadable load_last_id returns no prior id without raising; an
\* OSError in save_last_id is swallowed.
ClaimC14_AsStated ==
    /\ (SavedThenLoaded /\ content_id # <<>>) => ret = Returned(Some(content_id))
    /\ (Loaded /\ file.state # "ok") => ret = Returned(Nothing)
    /\ (pc = "io_saved" /\ LastCall.oserror) => ~ret.raised

\* C14, amended: save_last_id(id) that wrote the file followed by load_last_id()
\* returns that same id exactly when the id is not empty, has no whitespace at
\* either end and no carriage return inside; for any other id it returns no
\* prior id or a different string. With the file absent or not openable
\* load_last_id returns no prior id without raising; it raises only on content
\* that does not decode. An OSError in save_last_id is swallowed; save_last_id
\* raises only for an id the file encoding cannot represent.
ClaimC14_RoundTripOfCleanIds ==
    /\ SavedThenLoaded =>
           /\ ~ret.raised
           /\ ret.value = Some(content_id) <=> Clean(content_id)
           /\ ret.value \in {Nothing, Some(Strip(ReadText(content_id)))}
    /\ (Loaded /\ file.state # "ok") => ret = Returned(Nothing)
    /\ (Loaded /\ ret.raised) => (file.state = "ok" /\ ~Encodable(file.text))
    /\ pc = "io_saved" =>
           /\ LastCall.oserror => ~ret.raised
           /\ ret.raised => ~Encodable(content_id)

WitnessC14 ==
    /\ SavedThenLoaded
    /\ content_id = <<"a", " ", "a">>
    /\ ret = Returned(Some(content_id))

----------------------------------------------------------------------------
(* C15 *)

\* the process ends with a non-zero status: SystemExit with a message, or an
\* exception nothing caught
NonZero == pc \in {"exit_error", "crashed"}

\* the run ended because the image file does not exist
ImageMissingRun == pc = "no_image" \/ (pc = "exit_error" /\ thread = "none")

\* the upload was tried and the run ended without any content_id
NoIdObtained ==
    /\ pc \in {"done", "exit_error"}
    /\ thread # "none"
    /\ ~Truthy(content_id)

\* C15 as stated: in either entry point a run ends with a non-zero outcome only
\* when the image file is missing or no content_id was obtained by any path;
\* a failing connection, listing, select, close, delete or persistence leaves
\* the run ending normally.
ClaimC15_AsStated ==
    (pc \in Terminal /\ NonZero) => (ImageMissingRun \/ NoIdObtained)

----------------------------------------------------------------------------
(* C16 *)

\* C16 as stated: in either entry point, once the bounded upload has returned a
\* timeout and the caller has gone on or ended, a close of the session was
\* attempted right after the upload, and the run goes on whether or not the
\* close raised.
ClaimC16_AsStated ==
    (upload_error = "TimeoutError" /\ pc \notin {"join", "after_upload"}) =>
        \E i \in CallsOf("close") : i > 1 /\ calls[i - 1].op = "upload"

----------------------------------------------------------------------------
(* C17 *)

\* every delete issued so far came after a returned select of another id, and
\* it deleted the id read at start
DeletesFollowSelect ==
    \A i \in CallsOf("delete") :
        /\ calls[i].id = last_id
        /\ \E j \in CallsOf("select") :
             /\ j < i
             /\ ~calls[j].raised
             /\ calls[j].id = content_id
             /\ calls[j].id # calls[i].id

\* a select that raised ends the run with no delete
RaisedSelectEndsRun ==
    (\E j \in CallsOf("select") : calls[j].raised) =>
        /\ CallsOf("delete") = {}
        /\ pc \in {"failed", "crashed"}

\* C17: in every run of either entry point a delete of the previously persisted
\* id is issued only after a select has returned in the same run, and the
\* deleted id is never the id just selected; the persisted last id changes only
\* in the step after a returned select, so a select that raises leaves it as it
\* was and no delete is issued.
ClaimC17_DeleteOnlyAfterSelect ==
    [][/\ DeletesFollowSelect'
       /\ RaisedSelectEndsRun'
       /\ file' # file =>
              /\ calls # <<>> /\ LastCall = Call("select", content_id, FALSE)
              /\ file' \in {content_id, EmptyStr}
      ]_vars

WitnessC17 ==
    /\ entry = "main"
    /\ pc = "done"
    /\ calls # <<>> /\ LastCall = Call("delete", "x1", FALSE)
    /\ content_id = "x2" /\ file = "x2"

----------------------------------------------------------------------------
(* remove_today.remove_today: delete today's items with one bulk call *)

\* the longest listing remove_today is given
MaxRemoveLen == 2

\* config.MY_PICTURES_CATEGORY, the default of --category
MY_PICTURES_CATEGORY == "MY-C0002"

\* --category: the default, or an empty string to scan all categories
RemoveArgs == [replace_last : {FALSE}, category : {EmptyStr, MY_PICTURES_CATEGORY}]

\* datetime.now().strftime("%Y:%m:%d") on the day d, as a sequence of its parts
DatePrefix(d) == <<"2026", ":", "11", ":", d>>

Days == {"01", "02"}

\* image_date values: missing, not a string, or a string
NoDate == [k |-> "absent", s |-> <<>>]

NotAString == [k |-> "other", s |-> <<>>]

DateStr(s) == [k |-> "str", s |-> s]

\* the strings: a colon date with a time on either day, the same day written
\* with hyphens, and a string shorter than the prefix
ImageDates ==
    {NoDate, NotAString, DateStr(<<"2026", ":", "11">>),
     DateStr(<<"2026", "-", "11", "-", "02", " 10:15:00">>)} \cup
    {DateStr(DatePrefix(d) \o <<" 10:15:00">>) : d \in Days}

\* an item of the listing: a dict with its content_id and image_date, or not a dict
RmDict(cid, date) == [isdict |-> TRUE, content_id |-> cid, image_date |-> date]

RmNotADict == [isdict |-> FALSE, content_id |-> NoneVal, image_date |-> NoDate]

RmItems ==
    {RmNotADict} \cup
    {RmDict(cid, date) : cid \in Ids \cup {NoneVal, EmptyStr}, date \in ImageDates}

\* str.startswith(prefix)
StartsWith(s, prefix) ==
    /\ Len(s) >= Len(prefix)
    /\ SubSeq(s, 1, Len(prefix)) = prefix

\* an _is_today that takes any string for today's date
IsTodayAnyString(item, prefix) == item.image_date.k = "str"

\* _is_today: isinstance(value, str) and value.startswith(today_prefix)
is_today(item, prefix) ==
    item.image_date.k = "str" /\ StartsWith(item.image_date.s, prefix)

\* [item.get("content_id") for item in items
\*  if isinstance(item, dict) and _is_today(item, today_prefix)]
RECURSIVE IdsOfToday(_, _)
IdsOfToday(list, prefix) ==
    IF list = <<>> THEN <<>>
    ELSE (IF Head(list).isdict /\ is_today(Head(list), prefix)
          THEN <<Head(list).content_id>> ELSE <<>>) \o IdsOfToday(Tail(list), prefix)

\* [cid for cid in to_delete if cid]
RECURSIVE OnlyTruthy(_)
OnlyTruthy(ids) ==
    IF ids = <<>> THEN <<>>
    ELSE (IF Truthy(Head(ids)) THEN <<Head(ids)>> ELSE <<>>) \o OnlyTruthy(Tail(ids))

\* a device operation of remove_today: available with its category argument
\* (None when it is called without one), or delete_list with its ids
RmCall(op, category, ids, raised) ==
    [op |-> op, category |-> category, ids |-> ids, raised |-> raised]

\* _list_items: available(category=category) if category else available()
ListCategory(category) == IF Truthy(category) THEN category ELSE NoneVal

\* what remove_today leaves alone
rm_rest == <<file, last_id, before_list, before_ids, after_list, new_items,
             content_id, upload_error, thread, result, arg, ret, entry, args,
             today_prefix>>

InitRemove ==
    /\ pc = "r_start"
    /\ file = NoneVal /\ last_id = NoneVal
    /\ before_list = <<>> /\ before_ids = {} /\ after_list = <<>> /\ new_items = <<>>
    /\ content_id = NoneVal /\ upload_error = NoneVal
    /\ thread = "none" /\ result = [content_id |-> NoneVal, error |-> NoneVal]
    /\ calls = <<>>
    /\ arg = <<>> /\ ret = NoneVal
    /\ entry = "remove" /\ args \in RemoveArgs
    /\ rm_items = <<>> /\ to_delete = <<>>
    /\ today_prefix \in {DatePrefix(d) : d \in Days}

\* select_tv_ip / connect_tv raise and nothing catches the exception
RemoveConnectFails ==
    /\ pc = "r_start"
    /\ pc' = "crashed"
    /\ UNCHANGED <<calls, rm_items, to_delete, rm_rest>>

\* items = _list_items(art, args.category); to_delete = [...]; None lists as []
RemoveList ==
    /\ pc = "r_start"
    /\ \/ /\ calls' = Append(calls, RmCall("available", ListCategory(args.category),
                                           <<>>, TRUE))
          /\ pc' = "crashed"
          /\ UNCHANGED <<rm_items, to_delete>>
       \/ \E list \in SeqsUpTo(RmItems, MaxRemoveLen) :
            /\ calls' = Append(calls, RmCall("available", ListCategory(args.category),
                                             <<>>, FALSE))
            /\ rm_items' = list
            /\ to_delete' = OnlyTruthy(IdsOfToday(list, today_prefix))
            /\ pc' = "r_decide"
    /\ UNCHANGED rm_rest

\* if not to_delete: log and return
RemoveNothing ==
    /\ pc = "r_decide"
    /\ to_delete = <<>>
    /\ pc' = "done"
    /\ UNCHANGED <<calls, rm_items, to_delete, rm_rest>>

\* art.delete_list(to_delete), outside any try
RemoveDeleteList ==
    /\ pc = "r_decide"
    /\ to_delete # <<>>
    /\ \E raised \in BOOLEAN :
         /\ calls' = Append(calls, RmCall("delete_list", NoneVal, to_delete, raised))
         /\ pc' = IF raised THEN "crashed" ELSE "done"
    /\ UNCHANGED <<rm_items, to_delete, rm_rest>>

NextRemove == RemoveConnectFails \/ RemoveList \/ RemoveNothing \/ RemoveDeleteList

SpecRemove == InitRemove /\ [][NextRemove]_vars

----------------------------------------------------------------------------
(* C18 *)

\* the listing has been read
Listed == pc \in {"r_decide", "done"} \/ (pc = "crashed" /\ Len(calls) = 2)

\* s begins with every part of prefix, in order
BeginsWith(s, prefix) ==
    \A i \in 1..Len(prefix) : i <= Len(s) /\ s[i] = prefix[i]

\* the places of the listing that hold a record of today with a non-empty id
TodaysPlaces ==
    {i \in 1..Len(rm_items) :
        /\ rm_items[i].isdict
        /\ rm_items[i].image_date.k = "str"
        /\ BeginsWith(rm_items[i].image_date.s, today_prefix)
        /\ rm_items[i].content_id \notin {NoneVal, EmptyStr}}

\* the k-th of those places, in listing order
PlaceNo(k) == CHOOSE i \in TodaysPlaces : Cardinality({j \in TodaysPlaces : j < i}) = k - 1

\* C18: remove_today passes to the bulk delete exactly the non-empty content_ids,
\* in listing order, of the listed records whose image_date is a string starting
\* with today's date prefix, in one call and nothing else; with that list empty
\* the bulk delete is not called. With an empty category the listing is asked
\* without a category, otherwise for that category only.
ClaimC18_DeletesExactlyTodaysIds ==
    /\ Listed =>
           /\ Len(to_delete) = Cardinality(TodaysPlaces)
           /\ \A k \in 1..Len(to_delete) : to_delete[k] = rm_items[PlaceNo(k)].content_id
    /\ \A i \in CallsOf("delete_list") :
           /\ calls[i].ids = to_delete /\ to_delete # <<>>
           /\ i = Len(calls) /\ Cardinality(CallsOf("delete_list")) = 1
    /\ (pc = "done" /\ TodaysPlaces = {}) => CallsOf("delete_list") = {}
    /\ (pc = "done" /\ TodaysPlaces # {}) => CallsOf("delete_list") # {}
    /\ \A i \in CallsOf("available") :
           calls[i].category = IF args.category = EmptyStr THEN NoneVal
                               ELSE args.category

WitnessC18 ==
    /\ pc = "done"
    /\ args.category = EmptyStr
    /\ Len(rm_items) > 1
    /\ rm_items[1].content_id = EmptyStr /\ 1 \notin TodaysPlaces
    /\ is_today(rm_items[1], today_prefix)
    /\ to_delete = <<"x2">>
    /\ calls[Len(calls)] = RmCall("delete_list", NoneVal, <<"x2">>, FALSE)

====
